---------------------------- MODULE Spec2Model ----------------------------
(***************************************************************************)
(* Model of the Perl structural extraction pipeline                        *)
(*   src/perl parser/perform_perl_parser.py  (segmenter, classifier, AST   *)
(*       builder, batch runner, project assembler, cross-file resolver)    *)
(*   src/perl parser/neo4j_writer.py         (graph transformation,        *)
(*       relationship aggregation)                                         *)
(* and of two loops of the Java conversion agent                           *)
(*   src/java agent/main.py, agents/*.py     (the workflow graph)          *)
(*   src/java agent/config.py                (the LLM call with retries)   *)
(*                                                                         *)
(* Text is modelled as a sequence of tokens.  A token is a maximal run of  *)
(* word characters (\w+), one whitespace character, or one punctuation     *)
(* mark ("{", "}", ";", "(", ")", "->", "::", "#", "#!").  A line is the   *)
(* token sequence of its text without the line terminator; joining lines   *)
(* puts the "\n" token after each of them (files end with a newline).      *)
(* Names (package names, sub names, qualified names) are token sequences,  *)
(* so  "A" + "::" + "f"  is  <<"A", "::", "f">>  however it was built.     *)
(* An optional value (Python None) is a sequence of length 0 or 1.         *)
(***************************************************************************)
EXTENDS Integers, Sequences, FiniteSets, TLC

VARIABLES
    \* --- one file through segmenter, classifier and AST builder
    file,            \* the input file: [path, readable, lines]
    blocks,          \* parse_perl_file_to_blocks' return value
    blk,             \* index of the block create_ast_from_file is classifying
    cls,             \* parse_block_content's locals: i, use_statements, methods, ...
    classified,      \* per block: what parse_block_content returned
    result,          \* process_single_file's return value (None before)
    ppc,             \* position in process_single_file
    \* --- the batch and the project assembly (main)
    perl_files,      \* the files found, in enumeration order
    pending,         \* futures not yet yielded by as_completed
    results, successful_asts, successful, failed,
    combined_ast,    \* the Project AST (None before combine_asts)
    log,             \* what was printed (kind, file)
    graph,           \* what Neo4jWriter.store_ast made of the Project AST
    previous_graph,  \* the graph of the run before this one (None in the first)
    pc,              \* position in main
    \* --- find_function_calls_in_code on one text
    code, global_functions, caller_file, calls, cpc,
    \* --- Neo4jWriter.aggregate_relationships on one relationship list
    relationships, agg_pos, aggregated, agg_result, apc,
    \* --- one file through the conversion workflow graph
    state,           \* the AgentState: java_code, errors, fix_attempts, success
    node,            \* the node the graph runs next ("END" after the last)
    steps,           \* the steps the graph has streamed, in order
    \* --- EnhancedGroqLLM.generate_with_prompt, one call
    attempt,         \* the loop variable of the retry loop
    responses,       \* what each HTTP attempt so far has met
    outcome          \* how the call ended: returned value or raised exception

parseVars == <<file, blocks, blk, cls, classified, result, ppc>>
batchVars == <<perl_files, pending, results, successful_asts, successful,
               failed, combined_ast, log, graph, previous_graph, pc>>
callVars  == <<code, global_functions, caller_file, calls, cpc>>
aggVars   == <<relationships, agg_pos, aggregated, agg_result, apc>>
agentVars == <<state, node, steps, attempt, responses, outcome>>
vars == <<parseVars, batchVars, callVars, aggVars, agentVars>>

\* ------------------------------------------------------------------ bounds
MaxLines  == 4      \* lines of the file given to the segmenter
MaxFiles  == 2      \* files of a batch
MaxTokens == 4      \* tokens of a text given to the call matchers
MaxRels   == 4      \* raw relationships given to the aggregation

\* ------------------------------------------------------------- text helpers
None == <<>>
Some(x) == <<x>>
Range(s) == {s[k] : k \in 1..Len(s)}

WhiteSpace == {" ", "\n"}
Punctuation == {"{", "}", ";", "(", ")", "->", "::", "#", "#!", "<end>"}
IsSpace(t) == t \in WhiteSpace
IsWord(t) == t \notin WhiteSpace /\ t \notin Punctuation

\* number of leading whitespace tokens of s
RECURSIVE LeadingSpace(_)
LeadingSpace(s) ==
    IF s = <<>> \/ ~IsSpace(Head(s)) THEN 0 ELSE 1 + LeadingSpace(Tail(s))

RECURSIVE TrailingSpace(_)
TrailingSpace(s) ==
    IF s = <<>> \/ ~IsSpace(s[Len(s)]) THEN 0
    ELSE 1 + TrailingSpace(SubSeq(s, 1, Len(s) - 1))

\* str.strip()
Strip(s) ==
    IF LeadingSpace(s) = Len(s) THEN <<>>
    ELSE SubSeq(s, LeadingSpace(s) + 1, Len(s) - TrailingSpace(s))

\* str.count(tok)
Count(s, tok) == Cardinality({k \in 1..Len(s) : s[k] = tok})

\* str.find(tok) and str.rfind(tok), 1-based, 0 when absent
Find(s, tok) ==
    IF \E k \in 1..Len(s) : s[k] = tok
    THEN CHOOSE k \in 1..Len(s) : s[k] = tok /\ \A j \in 1..(k-1) : s[j] # tok
    ELSE 0
RFind(s, tok) ==
    IF \E k \in 1..Len(s) : s[k] = tok
    THEN CHOOSE k \in 1..Len(s) : s[k] = tok /\ \A j \in (k+1)..Len(s) : s[j] # tok
    ELSE 0

\* the longest prefix of s whose tokens all satisfy "not in stop"
RECURSIVE RunNotIn(_, _)
RunNotIn(s, stop) ==
    IF s = <<>> \/ Head(s) \in stop THEN <<>>
    ELSE <<Head(s)>> \o RunNotIn(Tail(s), stop)

\* "".join(lines): every line is followed by its newline
RECURSIVE Join(_)
Join(ls) == IF ls = <<>> THEN <<>> ELSE Head(ls) \o <<"\n">> \o Join(Tail(ls))

\* any(l.strip() for l in lines)
AnyNonBlank(ls) == \E k \in 1..Len(ls) : Strip(ls[k]) # <<>>

\* re.match(r'^\s*(kw)\s+([^;]+);?', stripped): the keyword, at least one
\* whitespace, at least one character other than ";".  With nothing but ";"
\* after two or more whitespace, \s+ gives one back to [^;]+.
KeywordArgMatch(stripped, kws) ==
    /\ Len(stripped) >= 2
    /\ stripped[1] \in kws
    /\ LET rest == Tail(stripped)
           w == LeadingSpace(rest)
           arg == RunNotIn(SubSeq(rest, w + 1, Len(rest)), {";"})
       IN  w >= 1 /\ (arg # <<>> \/ w >= 2)
\* its group holding the argument, .strip()ped
KeywordArg(stripped) ==
    LET rest == Tail(stripped)
        w == LeadingSpace(rest)
    IN  Strip(RunNotIn(SubSeq(rest, w + 1, Len(rest)), {";"}))

\* ---------------------------------------------------------- Block Segmenter
\* lines 68-69 and 79-80: a block is kept only if it has a non-blank line
FinalizeAlways(blks, current_block) == Append(blks, current_block)
FinalizeBlock(blks, current_block) ==
    IF AnyNonBlank(current_block.lines) THEN Append(blks, current_block) ELSE blks

RECURSIVE SegmentLoop(_, _, _, _)
SegmentLoop(lines, k, blks, current_block) ==
    IF k > Len(lines) THEN FinalizeBlock(blks, current_block)
    ELSE LET line == lines[k]
             stripped == Strip(line)
         IN  IF stripped # <<>> /\ stripped[1] = "#!"
             THEN SegmentLoop(lines, k + 1, blks, current_block)
             ELSE IF KeywordArgMatch(stripped, {"package"})
             THEN SegmentLoop(lines, k + 1, FinalizeBlock(blks, current_block),
                      [type |-> "package", name |-> KeywordArg(stripped),
                       lines |-> <<>>])
             ELSE SegmentLoop(lines, k + 1, blks,
                      [current_block EXCEPT !.lines = Append(@, line)])

\* an unreadable file: the exception is caught and [] returned
parse_perl_file_to_blocks(f) ==
    IF ~f.readable THEN <<>>
    ELSE SegmentLoop(f.lines, 1, <<>>,
                     [type |-> "global_scope", name |-> <<>>, lines |-> <<>>])

\* ---------------------------------------------------- Block Content Classifier
\* stripped.startswith('sub ')
StartsWithSub(stripped) ==
    Len(stripped) >= 2 /\ stripped[1] = "sub" /\ stripped[2] = " "
\* re.match(r'sub\s+([^\s{]+)', stripped): group 1, empty when there is no match
SubName(stripped) ==
    LET rest == Tail(stripped)
    IN  RunNotIn(SubSeq(rest, LeadingSpace(rest) + 1, Len(rest)),
                 WhiteSpace \cup {"{"})

BraceDelta(line) == Count(line, "{") - Count(line, "}")

\* lines 113-116: the index of the last line of the span opened at line i
RECURSIVE SpanEnd(_, _, _)
SpanEnd(lines, i, brace_count) ==
    IF brace_count > 0 /\ i + 1 <= Len(lines)
    THEN SpanEnd(lines, i + 1, brace_count + BraceDelta(lines[i + 1]))
    ELSE i

\* lines 119-122: the text between the first "{" and the last "}" of the span;
\* with no "}", rfind gives -1 and the slice drops the span's last character
SubBody(sub_lines) ==
    LET full_sub == Join(sub_lines)
        first_brace == Find(full_sub, "{")
        last_brace == RFind(full_sub, "}")
    IN  IF first_brace = 0 THEN <<>>
        ELSE Strip(SubSeq(full_sub, first_brace + 1,
                 IF last_brace = 0 THEN Len(full_sub) - 1 ELSE last_brace - 1))

\* line 133
FullName(package_name, sub_name) ==
    IF package_name # <<>> THEN package_name \o <<"::">> \o sub_name ELSE sub_name

ClassifyInit ==
    [i |-> 1, use_statements |-> <<>>, methods |-> <<>>,
     execution_lines |-> <<>>, sub_lines |-> <<>>]

ClassifyStepRescan(st, lines, package_name) ==
    LET line == lines[st.i]
        stripped == Strip(line)
    IN  IF KeywordArgMatch(stripped, {"use", "no"})
        THEN [st EXCEPT !.i = @ + 1,
                        !.use_statements = Append(@,
                            [type |-> "UseStatement", module |-> KeywordArg(stripped)])]
        ELSE IF StartsWithSub(stripped) /\ SubName(stripped) # <<>>
                /\ Count(line, "{") > 0
        THEN LET last == SpanEnd(lines, st.i, BraceDelta(line))
                 span == SubSeq(lines, st.i, last)
             IN  [st EXCEPT !.i = @ + 1,
                            !.methods = Append(@,
                                [type |-> "SubDefinition",
                                 name |-> SubName(stripped),
                                 body |-> SubBody(span),
                                 package |-> package_name,
                                 full_name |-> FullName(package_name, SubName(stripped))]),
                            !.sub_lines = Append(@, span)]
        ELSE [st EXCEPT !.i = @ + 1, !.execution_lines = Append(@, line)]
\* one iteration of the while loop of lines 93-140.  i is the cursor (1-based);
\* sub_lines keeps, per method, the span of lines it was cut from.  A method's
\* parameters (lines 124-125) are searched in its body, cannot fail, and are
\* read by nothing modelled here: the record is kept without them.
ClassifyStep(st, lines, package_name) ==
    LET line == lines[st.i]
        stripped == Strip(line)
    IN  IF KeywordArgMatch(stripped, {"use", "no"})
        THEN [st EXCEPT !.i = @ + 1,
                        !.use_statements = Append(@,
                            [type |-> "UseStatement", module |-> KeywordArg(stripped)])]
        ELSE IF StartsWithSub(stripped) /\ SubName(stripped) # <<>>
                /\ Count(line, "{") > 0
        THEN LET last == SpanEnd(lines, st.i, BraceDelta(line))
                 span == SubSeq(lines, st.i, last)
             IN  [st EXCEPT !.i = last + 1,
                            !.methods = Append(@,
                                [type |-> "SubDefinition",
                                 name |-> SubName(stripped),
                                 body |-> SubBody(span),
                                 package |-> package_name,
                                 full_name |-> FullName(package_name, SubName(stripped))]),
                            !.sub_lines = Append(@, span)]
        ELSE [st EXCEPT !.i = @ + 1, !.execution_lines = Append(@, line)]

RECURSIVE ClassifyLoop(_, _, _)
ClassifyLoop(st, lines, package_name) ==
    IF st.i > Len(lines) THEN st
    ELSE ClassifyLoop(ClassifyStep(st, lines, package_name), lines, package_name)

parse_block_content(lines, package_name) ==
    ClassifyLoop(ClassifyInit, lines, package_name)


\* ------------------------------------------------------------ File AST Builder
\* lines 156-157
has_code(lines) ==
    \E k \in 1..Len(lines) :
        Strip(lines[k]) # <<>> /\ Strip(lines[k])[1] \notin {"#", "#!"}

\* lines 162-163
WithSourceFile(use_statements, perl_file) ==
    [k \in 1..Len(use_statements) |->
        [type |-> "UseStatement", module |-> use_statements[k].module,
         source_file |-> perl_file]]

AstInit == [packages |-> <<>>, global_scope |-> None, use_statements |-> <<>>]

\* lines 160-191: one block, classified as c, added to the tree being built.
\* A global scope's "functions" key is present only when it is non-empty.
AssembleBlock(acc, block, c, perl_file) ==
    IF block.type = "package"
    THEN [acc EXCEPT !.packages = Append(@,
            [type |-> "PackageDeclaration",
             name |-> block.name,
             use_statements |-> WithSourceFile(c.use_statements, perl_file),
             methods |-> c.methods,
             script_execution |->
                 IF has_code(c.execution_lines)
                 THEN Some([type |-> "ScriptExecution",
                            body |-> Strip(Join(c.execution_lines)),
                            source_file |-> perl_file])
                 ELSE None,
             source_file |-> perl_file])]
    ELSE [acc EXCEPT !.use_statements =
                         @ \o WithSourceFile(c.use_statements, perl_file),
                     !.global_scope =
                         Some([type |-> "GlobalScope",
                               body |-> Strip(Join(c.execution_lines)),
                               source_file |-> perl_file,
                               functions |-> c.methods])]

\* lines 193-199
PerlFile(acc, perl_file) ==
    [type |-> "PerlFile", source_file |-> perl_file,
     use_statements |-> acc.use_statements, packages |-> acc.packages,
     global_scope |-> acc.global_scope]

RECURSIVE AssembleLoop(_, _, _, _)
AssembleLoop(acc, raw_blocks, k, perl_file) ==
    IF k > Len(raw_blocks) THEN acc
    ELSE AssembleLoop(
             AssembleBlock(acc, raw_blocks[k],
                 parse_block_content(raw_blocks[k].lines, raw_blocks[k].name),
                 perl_file),
             raw_blocks, k + 1, perl_file)

\* None when the segmenter returned no block
create_ast_from_file(f) ==
    LET raw_blocks == parse_perl_file_to_blocks(f)
    IN  IF raw_blocks = <<>> THEN None
        ELSE Some(PerlFile(AssembleLoop(AstInit, raw_blocks, 1, f.path), f.path))

\* lines 413-416 (no modelled input makes create_ast_from_file raise)
ResultOf(f, ast) ==
    IF ast = None
    THEN [file |-> f.path, status |-> "failed",
          error |-> "Failed to create AST", ast |-> None]
    ELSE [file |-> f.path, status |-> "success", error |-> "", ast |-> ast]

process_single_file(f) == ResultOf(f, create_ast_from_file(f))

\* ------------------------------------------------------ Symbol registry
\* global_functions is a dict: a sequence of entries in insertion order, at
\* most one per full_name.  (short_call_patterns is never read and is left out.)
RegIndex(reg, full_name) ==
    IF \E k \in 1..Len(reg) : reg[k].full_name = full_name
    THEN CHOOSE k \in 1..Len(reg) : reg[k].full_name = full_name
    ELSE 0

RegistryPutKeepFirst(reg, entry) ==
    IF RegIndex(reg, entry.full_name) = 0 THEN Append(reg, entry) ELSE reg
\* lines 219-228: global_functions[full_name] = {...}; an existing key keeps
\* its place in the dict's order and takes the new value
RegistryPut(reg, entry) ==
    IF RegIndex(reg, entry.full_name) = 0 THEN Append(reg, entry)
    ELSE [reg EXCEPT ![RegIndex(reg, entry.full_name)] = entry]

RegEntry(file_path, package_name, method) ==
    [full_name |-> method.full_name, file |-> file_path,
     package |-> package_name, method_name |-> method.name]

RECURSIVE RegMethods(_, _, _, _, _)
RegMethods(reg, file_path, package_name, methods, k) ==
    IF k > Len(methods) THEN reg
    ELSE RegMethods(RegistryPut(reg, RegEntry(file_path, package_name, methods[k])),
                    file_path, package_name, methods, k + 1)

RECURSIVE RegPackages(_, _, _, _)
RegPackages(reg, file_path, packages, k) ==
    IF k > Len(packages) THEN reg
    ELSE RegPackages(RegMethods(reg, file_path, packages[k].name,
                                packages[k].methods, 1),
                     file_path, packages, k + 1)

\* lines 205-228: the first pass over combined_ast["files"]
RECURSIVE BuildRegistry(_, _, _)
BuildRegistry(reg, files, k) ==
    IF k > Len(files) THEN reg
    ELSE BuildRegistry(RegPackages(reg, files[k].source_file, files[k].packages, 1),
                       files, k + 1)

\* ------------------------------------------------------ Cross-File Call Resolver
At(t, p) == IF p >= 1 /\ p <= Len(t) THEN t[p] ELSE "<end>"
WordAt(t, p) == p >= 1 /\ p <= Len(t) /\ IsWord(t[p])

\* \w+(?:::\w+)* taken greedily: the last position of the chain holding e
RECURSIVE ChainMax(_, _)
ChainMax(t, e) ==
    IF At(t, e + 1) = "::" /\ WordAt(t, e + 2) THEN ChainMax(t, e + 2) ELSE e

\* \s*: the first position from p on that holds no whitespace
RECURSIVE SkipSpace(_, _)
SkipSpace(t, p) == IF IsSpace(At(t, p)) THEN SkipSpace(t, p + 1) ELSE p

Match(t, p, last, groups) ==
    Some([start |-> p, end |-> last, groups |-> groups, text |-> SubSeq(t, p, last)])

\* line 283: (\w+(?:::\w+)*)->\s*(\w+)\s*\(
ObjectMethodAt(t, p) ==
    LET e == ChainMax(t, p)
        q == SkipSpace(t, e + 2)
        r == SkipSpace(t, q + 1)
    IN  IF WordAt(t, p) /\ At(t, e + 1) = "->" /\ WordAt(t, q) /\ At(t, r) = "("
        THEN Match(t, p, r, <<SubSeq(t, p, e), <<t[q]>>>>)
        ELSE None

\* line 284: (\w+(?:::\w+)*)::\s*(\w+)\s*\( ; the chain gives back trailing
\* ::word parts until the rest matches
PackageFunctionEnds(t, p) ==
    {e \in p..ChainMax(t, p) :
        /\ (e - p) % 2 = 0
        /\ At(t, e + 1) = "::"
        /\ WordAt(t, SkipSpace(t, e + 2))
        /\ At(t, SkipSpace(t, SkipSpace(t, e + 2) + 1)) = "("}
PackageFunctionAt(t, p) ==
    IF WordAt(t, p) /\ PackageFunctionEnds(t, p) # {}
    THEN LET e == CHOOSE x \in PackageFunctionEnds(t, p) :
                      \A y \in PackageFunctionEnds(t, p) : y <= x
             q == SkipSpace(t, e + 2)
         IN  Match(t, p, SkipSpace(t, q + 1), <<SubSeq(t, p, e), <<t[q]>>>>)
    ELSE None

\* line 285: (\w+)\s*\(
DirectFunctionAt(t, p) ==
    LET r == SkipSpace(t, p + 1)
    IN  IF WordAt(t, p) /\ At(t, r) = "("
        THEN Match(t, p, r, <<<<t[p]>>>>)
        ELSE None

\* line 286: (\w+(?:::\w+)*)->\s*new\s*\(
ConstructorAt(t, p) ==
    LET e == ChainMax(t, p)
        q == SkipSpace(t, e + 2)
        r == SkipSpace(t, q + 1)
    IN  IF WordAt(t, p) /\ At(t, e + 1) = "->" /\ At(t, q) = "new" /\ At(t, r) = "("
        THEN Match(t, p, r, <<SubSeq(t, p, e)>>)
        ELSE None

\* lines 282-287: the patterns in the order of the list
PatternAt(pattern, t, p) ==
    CASE pattern = 1 -> ObjectMethodAt(t, p)
      [] pattern = 2 -> PackageFunctionAt(t, p)
      [] pattern = 3 -> DirectFunctionAt(t, p)
      [] pattern = 4 -> ConstructorAt(t, p)

\* re.finditer: leftmost matches, none overlapping
RECURSIVE FindIter(_, _, _)
FindIter(pattern, t, p) ==
    IF p > Len(t) THEN <<>>
    ELSE LET m == PatternAt(pattern, t, p)
         IN  IF m = None THEN FindIter(pattern, t, p + 1)
             ELSE m \o FindIter(pattern, t, m[1].end + 1)

\* lines 306, 330, 346: target_info["file"] != caller_file
IsCrossFileAlways(target_info, from_file) == TRUE
IsCrossFile(target_info, from_file) == target_info.file # from_file

CrossFileCall(from_file, from_package, from_method, target_info, target_method, target_full_name, m, call_type) ==
    [type |-> "CrossFileCall",
     caller_file |-> from_file, caller_package |-> from_package,
     caller_method |-> from_method,
     target_file |-> target_info.file, target_package |-> target_info.package,
     target_method |-> target_method, target_full_name |-> target_full_name,
     call_pattern |-> m.text, call_type |-> call_type]

\* "->" in match.group(0)
HasArrow(text) == \E k \in 1..Len(text) : text[k] = "->"
\* "->new" in match.group(0)
HasArrowNewNever(text) == FALSE
HasArrowNew(text) == \E k \in 1..(Len(text) - 1) : text[k] = "->" /\ text[k + 1] = "new"

\* lines 292-319: two groups.  The first of the two names that is a registry
\* key decides (break), whether or not it gives an edge.
TwoGroupCalls(m, reg, from_file, from_package, from_method) ==
    LET qualified == m.groups[1] \o <<"::">> \o m.groups[2]
        bare == m.groups[2]
        full_name == IF RegIndex(reg, qualified) # 0 THEN qualified ELSE bare
        call_type == IF HasArrow(m.text) THEN "object_method" ELSE "package_function"
    IN  IF RegIndex(reg, full_name) # 0
           /\ IsCrossFile(reg[RegIndex(reg, full_name)], from_file)
        THEN LET target_info == reg[RegIndex(reg, full_name)]
             IN  <<CrossFileCall(from_file, from_package, from_method, target_info,
                                 target_info.method_name, full_name, m, call_type)>>
        ELSE <<>>

\* lines 325-342
ConstructorCalls(m, reg, from_file, from_package, from_method) ==
    LET constructor_name == m.groups[1] \o <<"::", "new">>
    IN  IF RegIndex(reg, constructor_name) # 0
           /\ IsCrossFile(reg[RegIndex(reg, constructor_name)], from_file)
        THEN <<CrossFileCall(from_file, from_package, from_method,
                             reg[RegIndex(reg, constructor_name)], <<"new">>,
                             constructor_name, m, "constructor")>>
        ELSE <<>>

DirectCallsFirstAlone(m, reg, from_file, from_package, from_method) ==
    LET hits == {k \in 1..Len(reg) : reg[k].method_name = m.groups[1]}
    IN  IF hits = {} THEN <<>>
        ELSE LET k == CHOOSE x \in hits : \A y \in hits : x <= y
             IN  IF IsCrossFile(reg[k], from_file)
                 THEN <<CrossFileCall(from_file, from_package, from_method, reg[k],
                                      reg[k].method_name, reg[k].full_name, m,
                                      "direct_function")>>
                 ELSE <<>>
\* lines 343-359: the first entry, in the registry's order, that has the bare
\* name and lives in another file
DirectCalls(m, reg, from_file, from_package, from_method) ==
    LET hits == {k \in 1..Len(reg) :
                    reg[k].method_name = m.groups[1] /\ IsCrossFile(reg[k], from_file)}
    IN  IF hits = {} THEN <<>>
        ELSE LET k == CHOOSE x \in hits : \A y \in hits : x <= y
             IN  <<CrossFileCall(from_file, from_package, from_method, reg[k],
                                 reg[k].method_name, reg[k].full_name, m,
                                 "direct_function")>>

\* lines 291-359: what one match adds to calls
MatchCalls(m, reg, from_file, from_package, from_method) ==
    IF Len(m.groups) = 2
    THEN TwoGroupCalls(m, reg, from_file, from_package, from_method)
    ELSE IF HasArrowNew(m.text)
    THEN ConstructorCalls(m, reg, from_file, from_package, from_method)
    ELSE DirectCalls(m, reg, from_file, from_package, from_method)

RECURSIVE MatchesCalls(_, _, _, _, _, _)
MatchesCalls(ms, k, reg, from_file, from_package, from_method) ==
    IF k > Len(ms) THEN <<>>
    ELSE MatchCalls(ms[k], reg, from_file, from_package, from_method)
         \o MatchesCalls(ms, k + 1, reg, from_file, from_package, from_method)

PatternCalls(pattern, text, reg, from_file, from_package, from_method) ==
    MatchesCalls(FindIter(pattern, text, 1), 1, reg, from_file, from_package,
                 from_method)

FirstMatcherWins(text, reg, from_file, from_package, from_method) ==
    LET made == {p \in 1..4 : PatternCalls(p, text, reg, from_file, from_package,
                                           from_method) # <<>>}
    IN  IF made = {} THEN <<>>
        ELSE PatternCalls(CHOOSE p \in made : \A q \in made : p <= q, text, reg,
                          from_file, from_package, from_method)
\* from_method is None for a call site outside any sub
find_function_calls_in_code(text, reg, from_file, from_package, from_method) ==
    PatternCalls(1, text, reg, from_file, from_package, from_method)
    \o PatternCalls(2, text, reg, from_file, from_package, from_method)
    \o PatternCalls(3, text, reg, from_file, from_package, from_method)
    \o PatternCalls(4, text, reg, from_file, from_package, from_method)

RECURSIVE MethodsCalls(_, _, _, _, _)
MethodsCalls(methods, k, reg, source_file, package_name) ==
    IF k > Len(methods) THEN <<>>
    ELSE (IF methods[k].body # <<>>
          THEN find_function_calls_in_code(methods[k].body, reg, source_file,
                                           package_name, methods[k].full_name)
          ELSE <<>>)
         \o MethodsCalls(methods, k + 1, reg, source_file, package_name)

\* lines 237-257: a package's script body, then its methods' bodies
RECURSIVE PackagesCalls(_, _, _, _)
PackagesCalls(packages, k, reg, source_file) ==
    IF k > Len(packages) THEN <<>>
    ELSE (IF packages[k].script_execution # None
             /\ packages[k].script_execution[1].body # <<>>
          THEN find_function_calls_in_code(packages[k].script_execution[1].body,
                                           reg, source_file, packages[k].name, None)
          ELSE <<>>)
         \o MethodsCalls(packages[k].methods, 1, reg, source_file, packages[k].name)
         \o PackagesCalls(packages, k + 1, reg, source_file)

\* lines 233-267: the second pass; the global scope's body is scanned last, its
\* functions' bodies are not scanned
RECURSIVE FilesCalls(_, _, _)
FilesCalls(files, k, reg) ==
    IF k > Len(files) THEN <<>>
    ELSE PackagesCalls(files[k].packages, 1, reg, files[k].source_file)
         \o (IF files[k].global_scope # None /\ files[k].global_scope[1].body # <<>>
             THEN find_function_calls_in_code(files[k].global_scope[1].body, reg,
                                              files[k].source_file, <<"global">>, None)
             ELSE <<>>)
         \o FilesCalls(files, k + 1, reg)

analyze_cross_file_calls(ast) ==
    LET reg == BuildRegistry(<<>>, ast.files, 1)
    IN  [ast EXCEPT !.cross_file_calls = FilesCalls(ast.files, 1, reg),
                    !.global_function_registry = reg]

\* ------------------------------------------- Project Assembler, dependencies
PkgDefIndex(defs, name) ==
    IF \E k \in 1..Len(defs) : defs[k].name = name
    THEN CHOOSE k \in 1..Len(defs) : defs[k].name = name
    ELSE 0
PkgDefPut(defs, d) ==
    IF PkgDefIndex(defs, d.name) = 0 THEN Append(defs, d)
    ELSE [defs EXCEPT ![PkgDefIndex(defs, d.name)] = d]

RECURSIVE PkgDefsOfPackages(_, _, _, _)
PkgDefsOfPackages(defs, file_path, packages, k) ==
    IF k > Len(packages) THEN defs
    ELSE PkgDefsOfPackages(
             PkgDefPut(defs, [name |-> packages[k].name, file |-> file_path,
                              methods |-> [j \in 1..Len(packages[k].methods) |->
                                              packages[k].methods[j].name]]),
             file_path, packages, k + 1)

\* lines 369-377
RECURSIVE PackageDefinitions(_, _, _)
PackageDefinitions(defs, files, k) ==
    IF k > Len(files) THEN defs
    ELSE PackageDefinitions(
             PkgDefsOfPackages(defs, files[k].source_file, files[k].packages, 1),
             files, k + 1)

\* lines 371 and 379: the file's own imports, then those of its packages
RECURSIVE PackagesUses(_, _)
PackagesUses(packages, k) ==
    IF k > Len(packages) THEN <<>>
    ELSE packages[k].use_statements \o PackagesUses(packages, k + 1)
RECURSIVE AllUseStatements(_, _)
AllUseStatements(files, k) ==
    IF k > Len(files) THEN <<>>
    ELSE files[k].use_statements \o PackagesUses(files[k].packages, 1)
         \o AllUseStatements(files, k + 1)

\* module.split()[0]; an empty module has no first part (IndexError)
SimpleModule(module) == RunNotIn(module, WhiteSpace)
DependenciesRaise(files) ==
    \E u \in Range(AllUseStatements(files, 1)) : Strip(u.module) = <<>>

\* lines 381-389: dependencies[file_of_use].add(file of the package used)
analyze_dependencies(files) ==
    LET defs == PackageDefinitions(<<>>, files, 1)
    IN  [dependencies |->
             {[source |-> u.source_file,
               target |-> defs[PkgDefIndex(defs, SimpleModule(u.module))].file] :
                 u \in {v \in Range(AllUseStatements(files, 1)) :
                           PkgDefIndex(defs, SimpleModule(v.module)) # 0}},
         package_definitions |-> defs]

\* lines 391-406 (metadata left out: a count and the wall clock)
combine_asts(file_asts) ==
    [type |-> "ProjectAST", files |-> file_asts,
     dependencies |-> analyze_dependencies(file_asts).dependencies,
     package_definitions |-> analyze_dependencies(file_asts).package_definitions,
     cross_file_calls |-> <<>>, global_function_registry |-> <<>>]

\* ------------------------------------------- Neo4jWriter.aggregate_relationships
\* aggregated is a defaultdict: a sequence of entries in insertion order, one
\* per key.  properties is a record, <<>> when the relationship has none.
RelKey(rel) == <<rel.from_id, rel.to_id, rel.type>>
AggIndex(agg, key) ==
    IF \E k \in 1..Len(agg) : agg[k].key = key
    THEN CHOOSE k \in 1..Len(agg) : agg[k].key = key
    ELSE 0
\* the defaultdict's factory, line 327
AggDefault(key) ==
    [key |-> key, count |-> 0, properties |-> <<>>,
     call_patterns |-> {}, call_types |-> {}]

AggItemAddCountOnce(item, rel) ==
    [item EXCEPT
        !.count = 1,
        !.properties = IF @ = <<>> THEN rel.properties ELSE @,
        !.call_patterns = IF "call_pattern" \in DOMAIN rel.properties
                          THEN @ \cup {rel.properties.call_pattern} ELSE @,
        !.call_types = IF "call_type" \in DOMAIN rel.properties
                       THEN @ \cup {rel.properties.call_type} ELSE @]
\* lines 336-345
AggItemAdd(item, rel) ==
    [item EXCEPT
        !.count = @ + 1,
        !.properties = IF @ = <<>> THEN rel.properties ELSE @,
        !.call_patterns = IF "call_pattern" \in DOMAIN rel.properties
                          THEN @ \cup {rel.properties.call_pattern} ELSE @,
        !.call_types = IF "call_type" \in DOMAIN rel.properties
                       THEN @ \cup {rel.properties.call_type} ELSE @]

\* lines 334-345: one relationship folded into the accumulator
AggregatePut(agg, rel) ==
    IF AggIndex(agg, RelKey(rel)) = 0
    THEN Append(agg, AggItemAdd(AggDefault(RelKey(rel)), rel))
    ELSE [agg EXCEPT ![AggIndex(agg, RelKey(rel))] = AggItemAdd(@, rel)]

\* lines 348-363: the relationship emitted for one entry; call_type is the
\* first element of a set of strings, whose order the run's hash seed decides
AggregatedRel(item, call_type) ==
    [from_id |-> item.key[1], to_id |-> item.key[2], type |-> item.key[3],
     properties |-> item.properties,
     call_count |-> item.count,
     call_patterns |-> item.call_patterns,
     call_types |-> item.call_types,
     call_type |-> call_type]

\* the whole of aggregate_relationships' first loop
RECURSIVE AggregateAll(_, _, _)
AggregateAll(agg, rels, k) ==
    IF k > Len(rels) THEN agg
    ELSE AggregateAll(AggregatePut(agg, rels[k]), rels, k + 1)

\* lines 347-363: the lists the second loop can return, one per way the sets
\* of call types can be ordered
RECURSIVE AggregateOutcomes(_, _)
AggregateOutcomes(agg, k) ==
    IF k > Len(agg) THEN {<<>>}
    ELSE {<<AggregatedRel(agg[k], call_type)>> \o rest :
              call_type \in (IF agg[k].call_types = {} THEN {"<absent>"}
                             ELSE agg[k].call_types),
              rest \in AggregateOutcomes(agg, k + 1)}

\* ------------------------------------------- Neo4jWriter._transform_perl_ast
\* An id is the token sequence of its text.  "_" is a token of its own and no
\* word of the model holds one, so two ids are the same text exactly when they
\* are the same sequence.

\* find_perl_files keeps the paths ending in .pl, .pm or .perl: the text of a
\* path is the file's name and its extension
PathText(file_path) == <<file_path, ".", "pl">>

\* line 74: "/", ".", " ", "\" and "::" each become "_"
NormalizeId(text) ==
    [k \in 1..Len(text) |->
        IF text[k] \in {"/", ".", " ", "\\", "::"} THEN "_" ELSE text[k]]

\* lines 84, 111/175, 133, 197, 246
FileId(file_path) == <<"file", "_">> \o NormalizeId(PathText(file_path))
UseId(module, owner_id) == <<"use", "_">> \o NormalizeId(module) \o <<"_">> \o owner_id
PackageId(file_id, name) == <<"package", "_">> \o file_id \o <<"_">> \o NormalizeId(name)
MethodId(package_id, name) == <<"method", "_">> \o package_id \o <<"_">> \o NormalizeId(name)
ScriptId(package_id) == <<"script", "_">> \o package_id

\* a node, with the properties that identify what it stands for (the others
\* are texts and counts copied from the AST)
GraphNode(id, type, name, source_file) ==
    [id |-> id, type |-> type, name |-> name, source_file |-> source_file]
GraphRel(from_id, to_id, type, properties) ==
    [from_id |-> from_id, to_id |-> to_id, type |-> type, properties |-> properties]

\* lines 110-129 and 174-193: one node and one relationship per use statement
UseNodes(use_statements, owner_id) ==
    [k \in 1..Len(use_statements) |->
        GraphNode(UseId(use_statements[k].module, owner_id), "USE_STATEMENT",
                  use_statements[k].module, use_statements[k].source_file)]
UseRels(use_statements, owner_id) ==
    [k \in 1..Len(use_statements) |->
        GraphRel(owner_id, UseId(use_statements[k].module, owner_id),
                 "USES_MODULE", <<>>)]

\* lines 196-241
MethodNodes(methods, package_id, source_file) ==
    [k \in 1..Len(methods) |->
        GraphNode(MethodId(package_id, methods[k].name), "METHOD",
                  methods[k].name, source_file)]
MethodRels(methods, package_id) ==
    [k \in 1..Len(methods) |->
        GraphRel(package_id, MethodId(package_id, methods[k].name),
                 "HAS_METHOD", <<>>)]

\* lines 132-273: a package, its use statements, its methods, its script
PackageNodes(package, file_id) ==
    LET package_id == PackageId(file_id, package.name)
    IN  <<GraphNode(package_id, "PACKAGE", package.name, package.source_file)>>
        \o UseNodes(package.use_statements, package_id)
        \o MethodNodes(package.methods, package_id, package.source_file)
        \o (IF package.script_execution # None
            THEN <<GraphNode(ScriptId(package_id), "SCRIPT_EXECUTION",
                             <<"script", "_">> \o package.name,
                             package.script_execution[1].source_file)>>
            ELSE <<>>)
PackageRels(package, file_id) ==
    LET package_id == PackageId(file_id, package.name)
    IN  <<GraphRel(file_id, package_id, "CONTAINS_PACKAGE", <<>>)>>
        \o UseRels(package.use_statements, package_id)
        \o MethodRels(package.methods, package_id)
        \o (IF package.script_execution # None
            THEN <<GraphRel(package_id, ScriptId(package_id), "HAS_SCRIPT", <<>>)>>
            ELSE <<>>)

RECURSIVE PackagesNodes(_, _, _)
PackagesNodes(packages, k, file_id) ==
    IF k > Len(packages) THEN <<>>
    ELSE PackageNodes(packages[k], file_id) \o PackagesNodes(packages, k + 1, file_id)
RECURSIVE PackagesRels(_, _, _)
PackagesRels(packages, k, file_id) ==
    IF k > Len(packages) THEN <<>>
    ELSE PackageRels(packages[k], file_id) \o PackagesRels(packages, k + 1, file_id)

\* lines 82-273: a file.  Its global scope goes into properties of the FILE
\* node; nothing is emitted for the global scope's functions.
FileNodes(file_data) ==
    LET file_id == FileId(file_data.source_file)
    IN  <<GraphNode(file_id, "FILE", file_data.source_file, file_data.source_file)>>
        \o UseNodes(file_data.use_statements, file_id)
        \o PackagesNodes(file_data.packages, 1, file_id)
FileRels(file_data) ==
    LET file_id == FileId(file_data.source_file)
    IN  UseRels(file_data.use_statements, file_id)
        \o PackagesRels(file_data.packages, 1, file_id)

RECURSIVE FilesNodes(_, _)
FilesNodes(files, k) ==
    IF k > Len(files) THEN <<>> ELSE FileNodes(files[k]) \o FilesNodes(files, k + 1)
RECURSIVE FilesRels(_, _)
FilesRels(files, k) ==
    IF k > Len(files) THEN <<>> ELSE FileRels(files[k]) \o FilesRels(files, k + 1)

\* name.split('::')[-1]
LastPart(name) == SubSeq(name, RFind(name, "::") + 1, Len(name))

\* lines 303-314: a caller inside a sub is that sub's METHOD node, any other
\* caller is the script node of its package
CallerIdOfScript(call) ==
    <<"script", "_", "package", "_", "file", "_">>
        \o NormalizeId(PathText(call.caller_file)) \o <<"_">>
        \o NormalizeId(call.caller_package)
_generate_method_caller_id(call) ==
    IF call.caller_method # None
    THEN <<"method", "_", "package", "_", "file", "_">>
             \o NormalizeId(PathText(call.caller_file)) \o <<"_">>
             \o NormalizeId(call.caller_package) \o <<"_">>
             \o NormalizeId(LastPart(call.caller_method))
    ELSE CallerIdOfScript(call)

\* lines 316-323
_generate_method_target_id(call) ==
    <<"method", "_", "package", "_", "file", "_">>
        \o NormalizeId(PathText(call.target_file)) \o <<"_">>
        \o NormalizeId(call.target_package) \o <<"_">>
        \o NormalizeId(call.target_method)

\* lines 276-293
CallRels(cross_file_calls) ==
    [k \in 1..Len(cross_file_calls) |->
        GraphRel(_generate_method_caller_id(cross_file_calls[k]),
                 _generate_method_target_id(cross_file_calls[k]),
                 "CALLS_METHOD",
                 [call_type |-> cross_file_calls[k].call_type,
                  call_pattern |-> cross_file_calls[k].call_pattern,
                  caller_file |-> cross_file_calls[k].caller_file,
                  target_file |-> cross_file_calls[k].target_file,
                  caller_package |-> cross_file_calls[k].caller_package,
                  target_package |-> cross_file_calls[k].target_package,
                  is_cross_file |-> TRUE])]

\* the raw relationship list of line 79, as line 296 hands it to the aggregation
RawRelationships(ast_data) ==
    FilesRels(ast_data.files, 1) \o CallRels(ast_data.cross_file_calls)

\* lines 76-301: every result the transformation can return
_transform_perl_ast(ast_data) ==
    {[nodes |-> FilesNodes(ast_data.files, 1), relationships |-> rels] :
        rels \in AggregateOutcomes(AggregateAll(<<>>, RawRelationships(ast_data), 1), 1)}

\* ------------------------------------------- the conversion workflow graph
\* config.py line 33: Settings.max_fix_attempts, its default
max_fix_attempts == 4

\* state.py lines 11-22: the fields the graph's routing reads.  java_code is
\* "" or stands for some Java text; errors is the list of messages, each named
\* after the place that appended it.
AgentState ==
    [java_code |-> "", errors |-> <<>>, fix_attempts |-> 0,
     success |-> FALSE, final_code |-> ""]

\* main.py lines 76-80
DecideWhileErrors(st) ==
    IF st.errors # <<>> THEN "fix" ELSE "validate"
decide_after_assurance(st) ==
    IF st.errors # <<>> /\ st.fix_attempts < max_fix_attempts THEN "fix" ELSE "validate"

\* an agent's body is a try block whose handler appends the failure to errors
\* and goes on with a fallback: the agent returns with or without a new error
MayAppend(st, error) == {st, [st EXCEPT !.errors = Append(@, error)]}

\* validation_agent.py lines 21-93: blocking errors, and the severe issues of
\* the LLM's validation when there are blocking errors, extend errors
CodeAssuranceAgent(st) ==
    IF st.java_code = ""
    THEN {[st EXCEPT !.errors = Append(@, "no_java_code")]}
    ELSE {st, [st EXCEPT !.errors = Append(@, "blocking")],
          [st EXCEPT !.errors = @ \o <<"blocking", "severe">>]}
\* codegen_agent.py lines 775-844: the fix clears errors, or is declined
\* (too much code lost, or the handler at line 838) and leaves them
CodeFixerAgent(st) ==
    LET counted == [st EXCEPT !.fix_attempts = @ + 1]
    IN  IF counted.java_code = "" THEN {counted}
        ELSE {counted, [counted EXCEPT !.errors = <<>>]}
\* main.py lines 70-74
_finalize_state(st) ==
    [st EXCEPT !.success = (st.errors = <<>>) /\ (st.java_code # ""),
               !.final_code = st.java_code]

\* --------------------------------------------------------------- idle parts
ParseIdle ==
    /\ file = [path |-> "file1", readable |-> FALSE, lines |-> <<>>]
    /\ blocks = <<>> /\ blk = 0 /\ cls = ClassifyInit /\ classified = <<>>
    /\ result = None /\ ppc = "idle"
BatchIdle ==
    /\ perl_files = <<>> /\ pending = {} /\ results = <<>>
    /\ successful_asts = <<>> /\ successful = 0 /\ failed = 0
    /\ combined_ast = None /\ log = <<>> /\ pc = "idle"
    /\ graph = None /\ previous_graph = None
CallIdle ==
    /\ code = <<>> /\ global_functions = <<>> /\ caller_file = "file1"
    /\ calls = <<>> /\ cpc = "idle"
AggIdle ==
    /\ relationships = <<>> /\ agg_pos = 0 /\ aggregated = <<>>
    /\ agg_result = <<>> /\ apc = "idle"
AgentIdle ==
    /\ state = AgentState /\ node = "idle" /\ steps = <<>>
    /\ attempt = 0 /\ responses = <<>> /\ outcome = [kind |-> "idle"]

SeqsUpTo(S, n) == UNION {[1..k -> S] : k \in 0..n}

\* ------------------------------------------- one file, step by step (SpecParse)
LineSet ==
    { <<>>,                                   \* blank
      <<"#!">>,                               \* shebang
      <<"package", " ", "A", ";">>,           \* namespace declaration
      <<"package", " ", " ", ";">>,           \* the same with an empty name
      <<"use", " ", "M", ";">>,               \* import
      <<"sub", " ", "f", " ", "{">>,          \* definition, brace left open
      <<"sub", " ", "f", " ", "{", "}", "}">>,\* definition closing once too often
      <<"sub", " ", "f">>,                    \* definition, brace on a later line
      <<"{">>,
      <<"}">>,
      <<"x", ";">> }                          \* a statement

ParseInputs ==
    {[path |-> "file1", readable |-> TRUE, lines |-> ls] :
        ls \in SeqsUpTo(LineSet, MaxLines)}
    \cup {[path |-> "file1", readable |-> FALSE, lines |-> <<>>]}

ParseInit ==
    /\ file \in ParseInputs
    /\ blocks = <<>> /\ blk = 0 /\ cls = ClassifyInit /\ classified = <<>>
    /\ result = None /\ ppc = "segment"
    /\ BatchIdle /\ CallIdle /\ AggIdle /\ AgentIdle

\* create_ast_from_file, line 148
SegmentFile ==
    /\ ppc = "segment"
    /\ blocks' = parse_perl_file_to_blocks(file)
    /\ blk' = 1
    /\ ppc' = IF blocks' = <<>> THEN "finish" ELSE "classify"
    /\ UNCHANGED <<file, cls, classified, result>>
    /\ UNCHANGED <<batchVars, callVars, aggVars, agentVars>>

\* parse_block_content on blocks[blk]: one iteration of its while loop
ClassifyIter ==
    /\ ppc = "classify"
    /\ cls.i <= Len(blocks[blk].lines)
    /\ cls' = ClassifyStep(cls, blocks[blk].lines, blocks[blk].name)
    /\ UNCHANGED <<file, blocks, blk, classified, result, ppc>>
    /\ UNCHANGED <<batchVars, callVars, aggVars, agentVars>>

\* parse_block_content returns (line 142); create_ast_from_file goes on to the
\* next block
ClassifyReturn ==
    /\ ppc = "classify"
    /\ cls.i > Len(blocks[blk].lines)
    /\ classified' = Append(classified, cls)
    /\ cls' = ClassifyInit
    /\ IF blk < Len(blocks)
       THEN blk' = blk + 1 /\ ppc' = "classify"
       ELSE blk' = blk /\ ppc' = "finish"
    /\ UNCHANGED <<file, blocks, result>>
    /\ UNCHANGED <<batchVars, callVars, aggVars, agentVars>>

RECURSIVE AssembleClassified(_, _, _, _, _)
AssembleClassified(acc, raw_blocks, cs, k, perl_file) ==
    IF k > Len(raw_blocks) THEN acc
    ELSE AssembleClassified(AssembleBlock(acc, raw_blocks[k], cs[k], perl_file),
                            raw_blocks, cs, k + 1, perl_file)

\* create_ast_from_file returns and process_single_file wraps the AST
FinishFile ==
    /\ ppc = "finish"
    /\ result' = Some(ResultOf(file,
           IF blocks = <<>> THEN None
           ELSE Some(PerlFile(AssembleClassified(AstInit, blocks, classified, 1,
                                                 file.path), file.path))))
    /\ ppc' = "done"
    /\ UNCHANGED <<file, blocks, blk, cls, classified>>
    /\ UNCHANGED <<batchVars, callVars, aggVars, agentVars>>

ParseNext == SegmentFile \/ ClassifyIter \/ ClassifyReturn \/ FinishFile
SpecParse == ParseInit /\ [][ParseNext]_vars

\* the step-by-step run builds what process_single_file computes
StepwiseAgrees == ppc = "done" => result = Some(process_single_file(file))


\* ----------------------------------------------------- claims on one file

\* every classification finished or under way, with the block it belongs to
Classifications ==
    {[c |-> classified[k], block |-> blocks[k]] : k \in 1..Len(classified)}
    \cup (IF ppc = "classify" THEN {[c |-> cls, block |-> blocks[blk]]} ELSE {})

Balanced(span) == Count(Join(span), "{") = Count(Join(span), "}")
\* the Definition record carries a warning mark
Flagged(method) == "warning" \in DOMAIN method

\* C6: every extracted Definition is cut from a span with as many "{" as "}",
\* or is flagged as a warning case; an unbalanced span (cut short by the end of
\* the input, or closed once too often) is never emitted unflagged.
C6_BalancedOrFlagged ==
    \A x \in Classifications :
        \A k \in 1..Len(x.c.methods) :
            Balanced(x.c.sub_lines[k]) \/ Flagged(x.c.methods[k])

\* the span's braces are still open where it ends
StillOpen(span) == Count(Join(span), "{") > Count(Join(span), "}")
IsSuffix(part, whole) ==
    /\ Len(part) <= Len(whole)
    /\ SubSeq(whole, Len(whole) - Len(part) + 1, Len(whole)) = part

\* the same, the warning aside: the span runs to the last line, one Definition
\* stands for it and the file is a success
C14_ConsumesToEnd ==
    \A x \in Classifications :
        \A k \in 1..Len(x.c.methods) :
            StillOpen(x.c.sub_lines[k]) =>
                /\ IsSuffix(x.c.sub_lines[k], x.block.lines)
                /\ x.c.i > Len(x.block.lines)
                /\ k = Len(x.c.methods)
                /\ ppc = "done" => result[1].status = "success"

\* C14: when a definition's brace counter never comes back to zero before the
\* input ends, every remaining line goes into that definition's span, exactly
\* one Definition is emitted for it, no error is raised, and the Definition is
\* reported as a warning case, unlike a balanced one.
C14_OpenSpanWarned ==
    /\ C14_ConsumesToEnd
    /\ \A x \in Classifications :
           \A k \in 1..Len(x.c.methods) :
               Flagged(x.c.methods[k]) <=> StillOpen(x.c.sub_lines[k])

IsShebang(line) == Strip(line) # <<>> /\ Strip(line)[1] = "#!"
IsNsDecl(line) == ~IsShebang(line) /\ KeywordArgMatch(Strip(line), {"package"})
IsContent(line) == Strip(line) # <<>> /\ ~IsShebang(line) /\ ~IsNsDecl(line)
NsDecls(lines) == {k \in 1..Len(lines) : IsNsDecl(lines[k])}
\* the lines between the declaration at d (0: the start of the file) and the
\* next declaration or the end of the file
ScopeOf(lines, d) ==
    {k \in (d+1)..Len(lines) : \A j \in (d+1)..k : ~IsNsDecl(lines[j])}
ScopeHasContent(lines, d) == \E k \in ScopeOf(lines, d) : IsContent(lines[k])
Segmented == ppc \in {"classify", "finish", "done"} /\ file.readable

\* C7 as stated: the number of Blocks is the number of namespace-declaration
\* lines, plus one for the leading global block unless that block is empty.
C7_BlocksPerDeclaration ==
    Segmented =>
        Len(blocks) = Cardinality(NsDecls(file.lines))
                      + (IF ScopeHasContent(file.lines, 0) THEN 1 ELSE 0)

\* C7 amended: the number of Blocks is the number of scopes (the leading global
\* scope and one per namespace-declaration line) that hold a non-blank,
\* non-shebang line; an empty NamedScope is dropped like an empty global one,
\* and the Blocks kept are those scopes in file order.
C7_BlocksPerNonEmptyScope ==
    Segmented =>
        /\ Len(blocks) = Cardinality({d \in {0} \cup NsDecls(file.lines) :
                                          ScopeHasContent(file.lines, d)})
        /\ \A k \in 1..Len(blocks) :
               (blocks[k].type = "global_scope") <=>
                   (k = 1 /\ ScopeHasContent(file.lines, 0))

\* a file with a declaration that nothing follows and a scope that is kept
C7_Witness ==
    /\ Segmented
    /\ \E d \in NsDecls(file.lines) : ~ScopeHasContent(file.lines, d)
    /\ Len(blocks) >= 1

OnlyShebangAndBlank(f) ==
    /\ f.readable
    /\ \E k \in 1..Len(f.lines) : IsShebang(f.lines[k])
    /\ \A k \in 1..Len(f.lines) : IsShebang(f.lines[k]) \/ Strip(f.lines[k]) = <<>>

\* C8: a readable file of a shebang line and blank lines yields a successful
\* File AST with no Block content, no Definition and no Import.
C8_ShebangOnlyFileSucceeds ==
    (ppc = "done" /\ OnlyShebangAndBlank(file)) =>
        /\ result[1].status = "success"
        /\ result[1].ast # None
        /\ result[1].ast[1].packages = <<>>
        /\ result[1].ast[1].use_statements = <<>>


\* a line with the keyword and the identifier and no brace
OpensWithoutBrace(line) ==
    StartsWithSub(Strip(line)) /\ SubName(Strip(line)) # <<>> /\ Count(line, "{") = 0
\* the block starts with such a line and a later line has the opening brace
BraceOnLaterLine(lines) ==
    /\ Len(lines) >= 2
    /\ OpensWithoutBrace(lines[1])
    /\ \E k \in 2..Len(lines) : Count(lines[k], "{") > 0

\* C23: a definition whose opening line has the keyword and the identifier and
\* whose opening brace stands on a later line is recognised: it is extracted
\* as a Definition whose span starts at the opening line, and the opening line
\* does not land in residual_lines.
C23_BraceOnLaterLine ==
    \A x \in Classifications :
        (x.c.i > 1 /\ BraceOnLaterLine(x.block.lines)) =>
            /\ x.c.methods # <<>>
            /\ x.c.methods[1].name = SubName(Strip(x.block.lines[1]))
            /\ x.c.sub_lines[1][1] = x.block.lines[1]
            /\ x.c.execution_lines = <<>> \/ x.c.execution_lines[1] # x.block.lines[1]

\* the lines of a block, from line i on, that are not blank, not an import and
\* not within the span of a definition
RECURSIVE NonBlankRest(_, _)
NonBlankRest(lines, i) ==
    IF i > Len(lines) THEN <<>>
    ELSE IF KeywordArgMatch(Strip(lines[i]), {"use", "no"}) THEN NonBlankRest(lines, i + 1)
    ELSE IF StartsWithSub(Strip(lines[i])) /\ SubName(Strip(lines[i])) # <<>>
            /\ Count(lines[i], "{") > 0
    THEN NonBlankRest(lines, SpanEnd(lines, i, BraceDelta(lines[i])) + 1)
    ELSE IF Strip(lines[i]) = <<>> THEN NonBlankRest(lines, i + 1)
    ELSE <<lines[i]>> \o NonBlankRest(lines, i + 1)

\* C24: the residual_lines that parse_block_content returns are exactly the
\* non-blank lines of the block that are neither imports nor within the span
\* of a definition, in their order; no blank line is among them.
C24_ResidualNonBlank ==
    \A k \in 1..Len(classified) :
        classified[k].execution_lines = NonBlankRest(blocks[k].lines, 1)

\* C25: a Definition's full_name is scope_name::name when its Block is a
\* NamedScope and the bare name when its Block is the GlobalScope.
C25_QualifiedName ==
    \A x \in Classifications :
        \A k \in 1..Len(x.c.methods) :
            x.c.methods[k].full_name =
                IF x.block.type = "package"
                THEN x.block.name \o <<"::">> \o x.c.methods[k].name
                ELSE x.c.methods[k].name

\* the lines from line i on are, in their order, the imports from the u-th on,
\* the spans from the m-th on and the residual lines from the e-th on of the
\* classification c: each line is one import, or lies in one span, or is one
\* residual line
RECURSIVE Partitions(_, _, _, _, _, _)
Partitions(lines, c, i, u, m, e) ==
    IF i > Len(lines)
    THEN u > Len(c.use_statements) /\ m > Len(c.sub_lines) /\ e > Len(c.execution_lines)
    ELSE \/ /\ u <= Len(c.use_statements)
            /\ KeywordArgMatch(Strip(lines[i]), {"use", "no"})
            /\ c.use_statements[u].module = KeywordArg(Strip(lines[i]))
            /\ Partitions(lines, c, i + 1, u + 1, m, e)
         \/ /\ m <= Len(c.sub_lines)
            /\ c.sub_lines[m] # <<>>
            /\ i + Len(c.sub_lines[m]) - 1 <= Len(lines)
            /\ c.sub_lines[m] = SubSeq(lines, i, i + Len(c.sub_lines[m]) - 1)
            /\ Partitions(lines, c, i + Len(c.sub_lines[m]), u, m + 1, e)
         \/ /\ e <= Len(c.execution_lines)
            /\ c.execution_lines[e] = lines[i]
            /\ Partitions(lines, c, i + 1, u, m, e + 1)

\* C27: the classifier's scan ends and partitions the block.  Every iteration
\* of the loop moves the cursor forward, never past the line after the last,
\* and the lines the cursor has passed are each in exactly one of: an Import,
\* the span of exactly one Definition, residual_lines; with one Definition per
\* span, and the cursor past the last line when the classifier returns.
C27_ScanPartitions ==
    [][/\ ClassifyIter => cls'.i > cls.i /\ cls'.i <= Len(blocks[blk].lines) + 1
       /\ ClassifyReturn => cls.i = Len(blocks[blk].lines) + 1
       /\ \A x \in Classifications' :
              /\ Len(x.c.methods) = Len(x.c.sub_lines)
              /\ Partitions(SubSeq(x.block.lines, 1, x.c.i - 1), x.c, 1, 1, 1, 1)]_vars

\* a block classified to its end into an import, a definition cut from more
\* than one line, and a residual line
C27_Witness ==
    \E k \in 1..Len(classified) :
        /\ classified[k].use_statements # <<>>
        /\ classified[k].execution_lines # <<>>
        /\ \E j \in 1..Len(classified[k].sub_lines) : Len(classified[k].sub_lines[j]) >= 2

\* --------------------------------- one text through the matchers (SpecCalls)
CallTokens == {"Animal", "f", "new", "->", "::", "(", " "}
\* two words side by side would be one word
WellFormed(t) == \A k \in 1..(Len(t) - 1) : ~(IsWord(t[k]) /\ IsWord(t[k + 1]))
\* longer texts: the chained call, whitespace after the arrow, a qualified
\* receiver, two calls one after the other
LongCallTexts ==
    { <<"Animal", "->", "new", "(", ")", "->", "f", "(", ")">>,
      <<"Animal", "->", " ", "new", "(">>,
      <<"B", "::", "Animal", "->", "new", "(">>,
      <<"B", "::", "f", "(", ")", ";", "\n", "f", "(", ")">>,
      <<"Animal", "->", "new", "(", ")", ";", "Animal", "::", "f", "(">> }
CallTexts == {t \in SeqsUpTo(CallTokens, MaxTokens) : WellFormed(t)} \cup LongCallTexts

CallFiles == {"file1", "file2"}
\* the last one is the sub f of a package whose declared name is empty
RegEntries ==
    {[full_name |-> FullName(k[1], k[2]), file |-> f,
      package |-> k[1], method_name |-> k[2]] :
        k \in {<<<<"Animal">>, <<"new">>>>, <<<<"Animal">>, <<"f">>>>,
               <<<<"B">>, <<"f">>>>, <<<<"B">>, <<"Animal">>>>,
               <<<<>>, <<"f">>>>},
        f \in CallFiles}
\* the registries of at most two entries, one per full_name
CallRegistries ==
    {r \in UNION {[1..n -> RegEntries] : n \in 0..2} :
        \A i, j \in 1..Len(r) : i # j => r[i].full_name # r[j].full_name}

\* the text is scanned as a text of file2: an entry of file1 is in another
\* file, an entry of file2 in the caller's own
CallsInit ==
    /\ code \in CallTexts
    /\ global_functions \in CallRegistries
    /\ caller_file = "file2"
    /\ calls = <<>> /\ cpc = "scan"
    /\ ParseIdle /\ BatchIdle /\ AggIdle /\ AgentIdle

FindFunctionCallsConsuming ==
    /\ cpc = "scan"
    /\ calls' = find_function_calls_in_code(code, global_functions, caller_file,
                                            <<"global">>, None)
    /\ global_functions' =
           SelectSeq(global_functions,
                     LAMBDA e : \A k \in 1..Len(calls') :
                                    calls'[k].target_full_name # e.full_name)
    /\ cpc' = "done"
    /\ UNCHANGED <<code, caller_file>>
    /\ UNCHANGED <<parseVars, batchVars, aggVars, agentVars>>
FindFunctionCalls ==
    /\ cpc = "scan"
    /\ calls' = find_function_calls_in_code(code, global_functions, caller_file,
                                            <<"global">>, None)
    /\ cpc' = "done"
    /\ UNCHANGED <<code, global_functions, caller_file>>
    /\ UNCHANGED <<parseVars, batchVars, aggVars, agentVars>>

CallsNext == FindFunctionCalls
SpecCalls == CallsInit /\ [][CallsNext]_vars

\* C1: no CallEdge has target_file = caller_file, whichever matcher made it.
C1_NoSameFileCall ==
    \A k \in 1..Len(calls) : calls[k].target_file # calls[k].caller_file

\* every kind of edge is produced, and a match on a same-file target is dropped
C1_Witness ==
    /\ cpc = "done"
    /\ calls # <<>>
    /\ \E k \in 1..Len(global_functions) : global_functions[k].file = caller_file
    /\ Len(find_function_calls_in_code(code, global_functions, "file3",
                                       <<"global">>, None)) > Len(calls)

Words(text) == {text[k] : k \in {j \in 1..Len(text) : IsWord(text[j])}}
First(S) == CHOOSE x \in S : \A y \in S : x <= y
\* the call sites of the bare word w in the scanned text
DirectSites(w) ==
    {k \in 1..Len(FindIter(3, code, 1)) : FindIter(3, code, 1)[k].groups[1] = <<w>>}
\* the edges the direct-function matcher made for them
DirectEdges(w) ==
    {k \in 1..Len(calls) : /\ calls[k].call_type = "direct_function"
                           /\ calls[k].call_pattern[1] = w
                           /\ ~HasArrow(calls[k].call_pattern)}
\* the registry entries whose bare definition name is w, and those of them
\* that live in another file than the caller
NameEntries(w) ==
    {k \in 1..Len(global_functions) : global_functions[k].method_name = <<w>>}
CrossEntries(w) ==
    {k \in NameEntries(w) : global_functions[k].file # caller_file}
\* every site of w gave an edge to the entry at index k
EdgesGoTo(w, k) ==
    /\ Cardinality(DirectEdges(w)) = Cardinality(DirectSites(w))
    /\ \A e \in DirectEdges(w) :
           /\ calls[e].target_full_name = global_functions[k].full_name
           /\ calls[e].target_file = global_functions[k].file

\* C19 as stated: a bare identifier( resolves to the first registry entry, in
\* registry order, whose bare name is the identifier, and that entry alone
\* decides: when it lives in the caller's file no CallEdge is emitted.
C19_FirstEntryDecides ==
    cpc = "done" =>
        \A w \in Words(code) :
            DirectSites(w) # {} =>
                IF NameEntries(w) = {}
                   \/ global_functions[First(NameEntries(w))].file = caller_file
                THEN DirectEdges(w) = {}
                ELSE EdgesGoTo(w, First(NameEntries(w)))

\* C19 amended: a bare identifier( resolves to the first registry entry, in
\* registry order, whose bare name is the identifier and whose file is not the
\* caller's; entries in the caller's file are passed over, and no CallEdge is
\* emitted only when no entry of that name lives in another file.
C19_FirstCrossFileEntryDecides ==
    cpc = "done" =>
        \A w \in Words(code) :
            DirectSites(w) # {} =>
                IF CrossEntries(w) = {}
                THEN DirectEdges(w) = {}
                ELSE EdgesGoTo(w, First(CrossEntries(w)))

\* the first entry of the name lives in the caller's file, a later one does
\* not, and the call site gave an edge
C19_Witness ==
    /\ cpc = "done"
    /\ \E w \in Words(code) :
           /\ DirectSites(w) # {}
           /\ NameEntries(w) # {}
           /\ global_functions[First(NameEntries(w))].file = caller_file
           /\ CrossEntries(w) # {}
           /\ DirectEdges(w) # {}

\* C20: in the list emitted for one text, every CallEdge of the constructor
\* matcher comes before every CallEdge of the direct-function matcher.
C20_ConstructorBeforeDirect ==
    cpc = "done" =>
        \A i, j \in 1..Len(calls) :
            (/\ calls[i].call_type = "constructor"
             /\ calls[j].call_type = "direct_function"
             /\ ~HasArrow(calls[j].call_pattern)) => i < j

\* the registry has the qualified name, in another file than the caller's
RegisteredElsewhere(full_name) ==
    /\ RegIndex(global_functions, full_name) # 0
    /\ global_functions[RegIndex(global_functions, full_name)].file # caller_file
\* an edge of that type for that matched text to that qualified name
HasEdge(call_type, call_pattern, full_name) ==
    \E k \in 1..Len(calls) : /\ calls[k].call_type = call_type
                             /\ calls[k].call_pattern = call_pattern
                             /\ calls[k].target_full_name = full_name
\* the call sites P->new( and P::f( of the scanned text
ConstructorSites == {m \in Range(FindIter(4, code, 1)) : HasArrowNew(m.text)}
QualifiedSites == Range(FindIter(2, code, 1))
\* the part of a matched text from its last word on: f(
BareCall(text) ==
    LET rest == SubSeq(text, RFind(text, "::") + 1, Len(text))
    IN  SubSeq(rest, LeadingSpace(rest) + 1, Len(rest))

\* C21: the matchers do not suppress one another.  A call site P->new( with
\* P::new registered in another file gives an object-method edge and a
\* constructor edge; a call site P::f( with P::f registered in another file
\* gives a scope-qualified edge and a direct-function edge, the latter resolved
\* on the bare name f by the direct-function matcher's own rule.
C21_MatchersIndependent ==
    cpc = "done" =>
        /\ \A m \in ConstructorSites :
               RegisteredElsewhere(m.groups[1] \o <<"::", "new">>) =>
                   /\ HasEdge("object_method", m.text, m.groups[1] \o <<"::", "new">>)
                   /\ HasEdge("constructor", m.text, m.groups[1] \o <<"::", "new">>)
        /\ \A m \in QualifiedSites :
               RegisteredElsewhere(m.groups[1] \o <<"::">> \o m.groups[2]) =>
                   /\ HasEdge("package_function", m.text,
                              m.groups[1] \o <<"::">> \o m.groups[2])
                   /\ HasEdge("direct_function", BareCall(m.text),
                              global_functions[First(CrossEntries(m.groups[2][1]))].full_name)

\* one text with both call sites, both targets registered in another file
C21_Witness ==
    /\ cpc = "done"
    /\ \E m \in ConstructorSites : RegisteredElsewhere(m.groups[1] \o <<"::", "new">>)
    /\ \E m \in QualifiedSites :
           RegisteredElsewhere(m.groups[1] \o <<"::">> \o m.groups[2])

\* the registry entries a match of matcher p may resolve to: the entries under
\* the candidate names of a two-name or constructor match, the entries with the
\* bare name of a direct-function match
CandidateEntries(p, m) ==
    {k \in 1..Len(global_functions) :
        CASE p \in {1, 2} ->
                 global_functions[k].full_name
                     \in {m.groups[1] \o <<"::">> \o m.groups[2], m.groups[2]}
          [] p = 3 -> global_functions[k].method_name = m.groups[1]
          [] OTHER -> global_functions[k].full_name = m.groups[1] \o <<"::", "new">>}
\* the edges a match of matcher p on that text has given
MatchEdges(p, m) ==
    {k \in 1..Len(calls) :
        /\ calls[k].call_pattern = m.text
        /\ calls[k].call_type = CASE p = 1 -> "object_method"
                                  [] p = 2 -> "package_function"
                                  [] p = 3 -> "direct_function"
                                  [] OTHER -> "constructor"}
IsEdgeTo(edge, target_info) ==
    /\ edge.target_file = target_info.file
    /\ edge.target_package = target_info.package
    /\ edge.target_method = target_info.method_name
    /\ edge.target_full_name = target_info.full_name

\* C22: a pattern match gives an edge exactly when one of its candidate names
\* is registered with a file other than the caller's, and the edge's target
\* file, scope and definition are those of such an entry; a match without such
\* a candidate gives nothing.
C22_EdgeIffCrossFileCandidate ==
    cpc = "done" =>
        \A p \in 1..4 : \A m \in Range(FindIter(p, code, 1)) :
            LET cross == {k \in CandidateEntries(p, m) :
                             global_functions[k].file # caller_file}
            IN  /\ MatchEdges(p, m) # {} <=> cross # {}
                /\ \A e \in MatchEdges(p, m) :
                       \E k \in cross : IsEdgeTo(calls[e], global_functions[k])

PkgAnimal == <<"package", " ", "Animal", ";">>
UseAnimal == <<"use", " ", "Animal", ";">>
SubNew    == <<"sub", " ", "new", " ", "{">>
SubSpeak  == <<"sub", " ", "speak", " ", "{">>
Close     == <<"}">>
ChainCall == <<"Animal", "->", "new", "(", ")", "->", "speak", "(", ")", ";">>

\* what a file of the batch may hold
FileContents ==
    { \* package Animal with new and speak
      <<PkgAnimal, SubNew, Close, SubSpeak, Close>>,
      \* package Animal with speak alone
      <<PkgAnimal, SubSpeak, Close>>,
      \* a script calling into Animal from its global scope
      <<ChainCall>>,
      \* the same script, importing Animal first
      <<UseAnimal, ChainCall>>,
      \* package Dog, importing Animal, whose speak calls Animal::speak
      <<<<"package", " ", "Dog", ";">>, UseAnimal, SubSpeak,
        <<"Animal", "::", "speak", "(", ")", ";">>, Close>>,
      \* a global function and a call of it
      <<SubSpeak, Close, <<"speak", "(", ")", ";">>>>,
      \* package Animal with speak, and a call of speak in the package's script
      <<PkgAnimal, SubSpeak, Close, <<"speak", "(", ")", ";">>>>,
      \* package Animal importing Animal, twice
      <<PkgAnimal, UseAnimal, UseAnimal, SubSpeak, Close>>,
      \* a shebang line and a blank line
      <<<<"#!">>, <<>>>> }

Paths == <<"file1", "file2", "file3", "file4">>
BatchInputs ==
    UNION {{fs \in [1..n -> [path : Range(Paths), readable : BOOLEAN,
                             lines : FileContents \cup {<<>>}]] :
               \A k \in 1..n : /\ fs[k].path = Paths[k]
                               /\ ~fs[k].readable => fs[k].lines = <<>>
                               /\ fs[k].readable => fs[k].lines \in FileContents}
           : n \in 1..MaxFiles}

Init ==
    /\ perl_files \in BatchInputs
    /\ pending = 1..Len(perl_files)
    /\ results = <<>> /\ successful_asts = <<>> /\ successful = 0 /\ failed = 0
    /\ combined_ast = None /\ log = <<>> /\ pc = "batch"
    /\ graph = None /\ previous_graph = None
    /\ ParseIdle /\ CallIdle /\ AggIdle /\ AgentIdle

FutureCompletesKeepingLast(k) ==
    /\ pc = "batch"
    /\ k \in pending
    /\ LET r == process_single_file(perl_files[k])
       IN  /\ results' = Append(results, r)
           /\ IF r.status = "success"
              THEN /\ successful' = successful + 1
                   /\ successful_asts' = <<r.ast[1]>>
                   /\ failed' = failed
                   /\ log' = log
              ELSE /\ failed' = failed + 1
                   /\ successful' = successful
                   /\ successful_asts' = successful_asts
                   /\ log' = log
                        \o (IF perl_files[k].readable THEN <<>>
                            ELSE <<[kind |-> "read_error", file |-> r.file]>>)
                        \o <<[kind |-> "failed", file |-> r.file]>>
    /\ pending' = pending \ {k}
    /\ UNCHANGED <<perl_files, combined_ast, graph, previous_graph, pc>>
    /\ UNCHANGED <<parseVars, callVars, aggVars, agentVars>>
FutureCompletesAborting(k) ==
    /\ pc = "batch"
    /\ k \in pending
    /\ LET r == process_single_file(perl_files[k])
       IN  /\ results' = Append(results, r)
           /\ IF r.status = "success"
              THEN /\ successful' = successful + 1
                   /\ successful_asts' = Append(successful_asts, r.ast[1])
                   /\ failed' = failed
                   /\ log' = log
                   /\ pending' = pending \ {k}
              ELSE /\ failed' = failed + 1
                   /\ successful' = successful
                   /\ successful_asts' = successful_asts
                   /\ log' = log \o <<[kind |-> "failed", file |-> r.file]>>
                   /\ pending' = {}
    /\ UNCHANGED <<perl_files, combined_ast, graph, previous_graph, pc>>
    /\ UNCHANGED <<parseVars, callVars, aggVars, agentVars>>
\* lines 432-443: as_completed yields the future of file k, whichever finished;
\* line 53 has printed the read error if the file could not be read
FutureCompletes(k) ==
    /\ pc = "batch"
    /\ k \in pending
    /\ LET r == process_single_file(perl_files[k])
       IN  /\ results' = Append(results, r)
           /\ IF r.status = "success"
              THEN /\ successful' = successful + 1
                   /\ successful_asts' = Append(successful_asts, r.ast[1])
                   /\ failed' = failed
                   /\ log' = log
              ELSE /\ failed' = failed + 1
                   /\ successful' = successful
                   /\ successful_asts' = successful_asts
                   /\ log' = log
                        \o (IF perl_files[k].readable THEN <<>>
                            ELSE <<[kind |-> "read_error", file |-> r.file]>>)
                        \o <<[kind |-> "failed", file |-> r.file]>>
    /\ pending' = pending \ {k}
    /\ UNCHANGED <<perl_files, combined_ast, graph, previous_graph, pc>>
    /\ UNCHANGED <<parseVars, callVars, aggVars, agentVars>>

\* lines 539-541
ExitNoAst ==
    /\ pc = "batch" /\ pending = {}
    /\ successful_asts = <<>>
    /\ pc' = "exit"
    /\ UNCHANGED <<perl_files, pending, results, successful_asts, successful,
                   failed, combined_ast, log, graph, previous_graph>>
    /\ UNCHANGED <<parseVars, callVars, aggVars, agentVars>>

\* line 544; an import with an empty module name makes analyze_dependencies raise
CombineAsts ==
    /\ pc = "batch" /\ pending = {}
    /\ successful_asts # <<>>
    /\ IF DependenciesRaise(successful_asts)
       THEN pc' = "crashed" /\ combined_ast' = combined_ast
       ELSE pc' = "analyze" /\ combined_ast' = Some(combine_asts(successful_asts))
    /\ UNCHANGED <<perl_files, pending, results, successful_asts, successful,
                   failed, log, graph, previous_graph>>
    /\ UNCHANGED <<parseVars, callVars, aggVars, agentVars>>

\* line 548
AnalyzeCrossFileCalls ==
    /\ pc = "analyze"
    /\ combined_ast' = Some(analyze_cross_file_calls(combined_ast[1]))
    /\ pc' = "done"
    /\ UNCHANGED <<perl_files, pending, results, successful_asts, successful,
                   failed, log, graph, previous_graph>>
    /\ UNCHANGED <<parseVars, callVars, aggVars, agentVars>>

\* neo4j_writer's main: the Project AST written by line 552 is loaded and
\* store_ast transforms it (line 467)
StoreAst ==
    /\ pc = "done"
    /\ \E g \in _transform_perl_ast(combined_ast[1]) : graph' = Some(g)
    /\ pc' = "stored"
    /\ UNCHANGED <<perl_files, pending, results, successful_asts, successful,
                   failed, combined_ast, log, previous_graph>>
    /\ UNCHANGED <<parseVars, callVars, aggVars, agentVars>>

\* the extraction is run once more on the same files, left as they were
RunAgain ==
    /\ pc = "stored" /\ previous_graph = None
    /\ previous_graph' = graph
    /\ pending' = 1..Len(perl_files)
    /\ results' = <<>> /\ successful_asts' = <<>> /\ successful' = 0 /\ failed' = 0
    /\ combined_ast' = None /\ log' = <<>> /\ graph' = None /\ pc' = "batch"
    /\ UNCHANGED perl_files
    /\ UNCHANGED <<parseVars, callVars, aggVars, agentVars>>

Next ==
    \/ \E k \in 1..MaxFiles : FutureCompletes(k)
    \/ ExitNoAst
    \/ CombineAsts
    \/ AnalyzeCrossFileCalls
    \/ StoreAst
    \/ RunAgain
Spec == Init /\ [][Next]_vars


\* ------------------------------------------------------ claims on the batch
ProjectFiles == combined_ast[1].files
Registry == combined_ast[1].global_function_registry
CallEdges == combined_ast[1].cross_file_calls

\* the file AST declares the qualified name in one of its packages
Declares(ast, q) ==
    \E p \in Range(ast.packages) : \E m \in Range(p.methods) : m.full_name = q
DeclaredNames(ast) ==
    {m.full_name : m \in UNION {Range(p.methods) : p \in Range(ast.packages)}}

\* C2: after the registry is built over the file list, the entry of every
\* qualified name points to the last file of the list that declares it (and
\* every declared name has an entry).
C2_LastWriteWins ==
    pc = "done" =>
        /\ \A e \in Range(Registry) :
               \E k \in 1..Len(ProjectFiles) :
                   /\ Declares(ProjectFiles[k], e.full_name)
                   /\ e.file = ProjectFiles[k].source_file
                   /\ \A j \in (k+1)..Len(ProjectFiles) :
                          ~Declares(ProjectFiles[j], e.full_name)
        /\ \A k \in 1..Len(ProjectFiles) :
               \A q \in DeclaredNames(ProjectFiles[k]) : RegIndex(Registry, q) # 0

\* two files A then B declare the same name and the entry points to B
C2_Witness ==
    /\ pc = "done"
    /\ \E i, j \in 1..Len(ProjectFiles) :
           /\ i < j
           /\ \E q \in DeclaredNames(ProjectFiles[i]) :
                  /\ Declares(ProjectFiles[j], q)
                  /\ Registry[RegIndex(Registry, q)].file = ProjectFiles[j].source_file

\* the conflict records of a run: a list in the Project AST or printed lines
ConflictRecords ==
    (IF "conflicts" \in DOMAIN combined_ast[1]
     THEN Range(combined_ast[1].conflicts) ELSE {})
    \cup {l \in Range(log) : l.kind = "conflict"}

\* C3: when two files declare the same qualified name, building the registry
\* leaves a conflict record naming both files.
C3_ConflictRecorded ==
    pc = "done" =>
        \A i, j \in 1..Len(ProjectFiles) :
            \A q \in DeclaredNames(ProjectFiles[i]) :
                (i < j /\ Declares(ProjectFiles[j], q)) =>
                    \E c \in ConflictRecords :
                        {ProjectFiles[i].source_file, ProjectFiles[j].source_file}
                            \subseteq c.files

InputIndex(path) == CHOOSE k \in 1..Len(perl_files) : perl_files[k].path = path
\* the successful File ASTs in input enumeration order
RECURSIVE CanonicalAsts(_)
CanonicalAsts(k) ==
    IF k > Len(perl_files) THEN <<>>
    ELSE create_ast_from_file(perl_files[k]) \o CanonicalAsts(k + 1)

\* C4: whatever the order in which the workers finish, the file ASTs given to
\* the Project Assembler are in input enumeration order, and so the registry is
\* the one built in that order.
C4_CanonicalOrder ==
    pc \in {"analyze", "done"} =>
        /\ \A i, j \in 1..Len(ProjectFiles) :
               i < j => InputIndex(ProjectFiles[i].source_file)
                            < InputIndex(ProjectFiles[j].source_file)
        /\ pc = "done" => Registry = BuildRegistry(<<>>, CanonicalAsts(1), 1)

Contains(text, part) ==
    \E k \in 1..(Len(text) - Len(part) + 1) : SubSeq(text, k, k + Len(part) - 1) = part
ChainText == <<"Animal", "->", "new", "(", ")", "->", "speak", "(", ")">>
MethodNames(ast, package_name) ==
    {m.name : m \in UNION {Range(p.methods) :
                              p \in {x \in Range(ast.packages) : x.name = package_name}}}
\* two files: a declares scope Animal with exactly the definitions names, b is
\* a script whose global scope holds the chained call
TwoFileScenario(a, b, names) ==
    /\ pc = "done"
    /\ Len(ProjectFiles) = 2 /\ {a, b} = {1, 2}
    /\ MethodNames(ProjectFiles[a], <<"Animal">>) = names
    /\ ProjectFiles[b].packages = <<>>
    /\ ProjectFiles[b].global_scope # None
    /\ Contains(ProjectFiles[b].global_scope[1].body, ChainText)

\* C9: with new and speak defined in Animal, the chained call gives a
\* constructor edge to Animal::new from the script's file to Animal's file.
C9_ConstructorEdge ==
    \A a, b \in 1..2 :
        TwoFileScenario(a, b, {<<"new">>, <<"speak">>}) =>
            \E c \in Range(CallEdges) :
                /\ c.call_type = "constructor"
                /\ c.target_full_name = <<"Animal", "::", "new">>
                /\ c.target_file = ProjectFiles[a].source_file
                /\ c.caller_file = ProjectFiles[b].source_file

C9_Witness ==
    \E a, b \in 1..2 : TwoFileScenario(a, b, {<<"new">>, <<"speak">>})

\* C10: with speak alone defined in Animal, the chained call gives an
\* object-method edge to Animal::speak from the script's file to Animal's file.
C10_ObjectMethodEdge ==
    \A a, b \in 1..2 :
        TwoFileScenario(a, b, {<<"speak">>}) =>
            \E c \in Range(CallEdges) :
                /\ c.call_type = "object_method"
                /\ c.target_full_name = <<"Animal", "::", "speak">>
                /\ c.target_file = ProjectFiles[a].source_file
                /\ c.caller_file = ProjectFiles[b].source_file


\* a readable file with a line that is not blank, a shebang line or a namespace
\* declaration
HasContentLine(f) == f.readable /\ \E k \in 1..Len(f.lines) : IsContent(f.lines[k])

\* C15: a file that cannot be read does not abort the batch.  When the batch
\* is over every file has its one result: a failed record with an error text
\* for each unreadable file, and for each readable file that is not empty (it
\* holds a line that is not blank, a shebang line or a namespace declaration)
\* a success with the AST the file gives on its own, which is also among the
\* ASTs returned.
C15_FailureIsolated ==
    pending = {} =>
        /\ Len(results) = Len(perl_files)
        /\ successful + failed = Len(perl_files)
        /\ \A k \in 1..Len(perl_files) :
               \E j \in 1..Len(results) :
                   /\ results[j].file = perl_files[k].path
                   /\ \A i \in 1..Len(results) :
                          results[i].file = perl_files[k].path => i = j
                   /\ ~perl_files[k].readable =>
                          /\ results[j].status = "failed"
                          /\ results[j].error # ""
                          /\ results[j].ast = None
                   /\ HasContentLine(perl_files[k]) =>
                          /\ results[j].status = "success"
                          /\ results[j].ast = create_ast_from_file(perl_files[k])
                          /\ results[j].ast # None
                          /\ results[j].ast[1] \in Range(successful_asts)

\* the unreadable file's future is the first to complete, a file with content
\* follows and succeeds
C15_Witness ==
    /\ pending = {}
    /\ Len(results) = 2
    /\ results[1].status = "failed" /\ results[2].status = "success"
    /\ \E k \in 1..Len(perl_files) :
           ~perl_files[k].readable /\ perl_files[k].path = results[1].file
    /\ \E k \in 1..Len(perl_files) :
           HasContentLine(perl_files[k]) /\ perl_files[k].path = results[2].file


\* the ASTs of the entries with status success, in the entries' order
RECURSIVE SuccessAsts(_)
SuccessAsts(rs) ==
    IF rs = <<>> THEN <<>>
    ELSE (IF Head(rs).status = "success" THEN <<Head(rs).ast[1]>> ELSE <<>>)
         \o SuccessAsts(Tail(rs))

\* C28: whatever the order in which the pool's futures complete, when all have
\* completed each input file has exactly one entry in results, successful +
\* failed is the number of input files, and successful_asts holds exactly the
\* ASTs of the entries with status success; until then the same holds of the
\* files whose future has completed.
C28_OneEntryPerFile ==
    /\ \A k \in 1..Len(perl_files) :
           Cardinality({j \in 1..Len(results) : results[j].file = perl_files[k].path})
               = Cardinality({j \in 1..Len(perl_files) \ pending :
                                 perl_files[j].path = perl_files[k].path})
    /\ Len(results) = Len(perl_files) - Cardinality(pending)
    /\ successful + failed = Len(results)
    /\ successful = Len(successful_asts)
    /\ successful_asts = SuccessAsts(results)

\* the pool is through with two files, the second of them first, one of them
\* a success and one a failure
C28_Witness ==
    /\ pc = "batch" /\ pending = {}
    /\ Len(perl_files) = 2
    /\ results[1].file = perl_files[2].path
    /\ successful = 1 /\ failed = 1

\* ------------------------------------------------------ claims on the graph
Nodes == graph[1].nodes
Rels == graph[1].relationships
NodeIds(g) == {n.id : n \in Range(g.nodes)}
\* the aggregated relationships with their occurrence counts
RelCounts(g) ==
    {<<r.from_id, r.to_id, r.type, r.call_count>> : r \in Range(g.relationships)}

\* C11: a second run of the whole extraction on the same files gives the same
\* set of node ids, the same aggregated relationships and the same occurrence
\* counts as the first, whatever the order in which the workers of either run
\* finish.
C11_Idempotent ==
    (pc = "stored" /\ previous_graph # None) =>
        /\ NodeIds(graph[1]) = NodeIds(previous_graph[1])
        /\ RelCounts(graph[1]) = RelCounts(previous_graph[1])

Dependencies == combined_ast[1].dependencies

\* C12: no Dependency edge has its source file as its target: importing a
\* scope that the importing file declares itself gives no Dependency.
C12_NoSelfDependency ==
    combined_ast # None => \A d \in Dependencies : d.source # d.target

\* the Definitions of a file AST: those of its packages and those of its
\* global scope
PackageDefinitionsOf(ast) == UNION {Range(p.methods) : p \in Range(ast.packages)}
GlobalDefinitionsOf(ast) ==
    IF ast.global_scope = None THEN {} ELSE Range(ast.global_scope[1].functions)

\* C13: once the registry is built, the qualified name of every Definition of
\* every file is one of its keys, those of the global scope (bare names)
\* included.
C13_EveryDefinitionRegistered ==
    pc \in {"done", "stored"} =>
        \A k \in 1..Len(ProjectFiles) :
            \A m \in PackageDefinitionsOf(ProjectFiles[k])
                     \cup GlobalDefinitionsOf(ProjectFiles[k]) :
                RegIndex(Registry, m.full_name) # 0

\* C16: the node list never holds two nodes with the same id, also when a
\* scope holds the same import several times.
C16_UniqueNodeIds ==
    pc = "stored" =>
        \A i, j \in 1..Len(Nodes) : Nodes[i].id = Nodes[j].id => i = j

\* the Definitions of the file AST that have the name, each counted
DefinitionCount(ast, name) ==
    Cardinality(UNION {{<<p, k>> : k \in {j \in 1..Len(ast.packages[p].methods) :
                                              ast.packages[p].methods[j].name = name}} :
                          p \in 1..Len(ast.packages)})
    + (IF ast.global_scope = None THEN 0
       ELSE Cardinality({k \in 1..Len(ast.global_scope[1].functions) :
                            ast.global_scope[1].functions[k].name = name}))
DefinitionNames(ast) ==
    {m.name : m \in PackageDefinitionsOf(ast) \cup GlobalDefinitionsOf(ast)}
\* the METHOD nodes standing for the Definitions of that name in that file
MethodNodesOf(source_file, name) ==
    {k \in 1..Len(Nodes) : /\ Nodes[k].type = "METHOD"
                           /\ Nodes[k].name = name
                           /\ Nodes[k].source_file = source_file}

\* C17: every Definition of the Project AST, those of a global scope included,
\* has its one METHOD node (as many METHOD nodes per file and name as the file
\* has Definitions of that name), and every such node is reached by a
\* HAS_METHOD relationship from its scope's node.
C17_NodePerDefinition ==
    pc = "stored" =>
        \A k \in 1..Len(ProjectFiles) :
            \A name \in DefinitionNames(ProjectFiles[k]) :
                /\ Cardinality(MethodNodesOf(ProjectFiles[k].source_file, name))
                       = DefinitionCount(ProjectFiles[k], name)
                /\ \A n \in MethodNodesOf(ProjectFiles[k].source_file, name) :
                       \E r \in Range(Rels) :
                           /\ r.type = "HAS_METHOD"
                           /\ r.to_id = Nodes[n].id
                           /\ r.from_id \in NodeIds(graph[1])

\* C18: both ends of every CALLS_METHOD relationship are ids of emitted
\* nodes, also when the caller is in the global scope.
C18_CallEndsAreNodes ==
    pc = "stored" =>
        \A r \in Range(Rels) :
            r.type = "CALLS_METHOD" =>
                r.from_id \in NodeIds(graph[1]) /\ r.to_id \in NodeIds(graph[1])


\* ------------------------------------------- one file through the graph (SpecFlow)
\* main.py line 147: convert_file starts the graph on a fresh AgentState
FlowInit ==
    /\ state = AgentState /\ node = "data_retrieval" /\ steps = <<>>
    /\ attempt = 0 /\ responses = <<>> /\ outcome = [kind |-> "idle"]
    /\ ParseIdle /\ BatchIdle /\ CallIdle /\ AggIdle

\* The graph runs its node and follows the edge of main.py lines 56-66.
\* data_agent.py lines 756-800
DataRetrieval ==
    /\ node = "data_retrieval"
    /\ state' \in MayAppend(state, "data_retrieval")
    /\ node' = "perl_analysis"
    /\ steps' = Append(steps, node)
    /\ UNCHANGED <<parseVars, batchVars, callVars, aggVars, attempt, responses, outcome>>
\* analysis_agent.py lines 19-99
PerlAnalysis ==
    /\ node = "perl_analysis"
    /\ state' \in MayAppend(state, "perl_analysis")
    /\ node' = "code_generation"
    /\ steps' = Append(steps, node)
    /\ UNCHANGED <<parseVars, batchVars, callVars, aggVars, attempt, responses, outcome>>
\* codegen_agent.py lines 20-120: the generated code, or the emergency class
\* of the handler, or nothing
CodeGeneration ==
    /\ node = "code_generation"
    /\ \E c \in {"", "class"} :
           state' \in MayAppend([state EXCEPT !.java_code = c], "code_generation")
    /\ node' = "code_assurance"
    /\ steps' = Append(steps, node)
    /\ UNCHANGED <<parseVars, batchVars, callVars, aggVars, attempt, responses, outcome>>
\* the conditional edge of lines 59-63 is taken on the state the node returned
CodeAssurance ==
    /\ node = "code_assurance"
    /\ state' \in CodeAssuranceAgent(state)
    /\ node' = (IF decide_after_assurance(state') = "fix" THEN "code_fixer"
                ELSE "final_validation")
    /\ steps' = Append(steps, node)
    /\ UNCHANGED <<parseVars, batchVars, callVars, aggVars, attempt, responses, outcome>>
CodeFixer ==
    /\ node = "code_fixer"
    /\ state' \in CodeFixerAgent(state)
    /\ node' = "code_assurance"
    /\ steps' = Append(steps, node)
    /\ UNCHANGED <<parseVars, batchVars, callVars, aggVars, attempt, responses, outcome>>
\* validation_agent.py lines 320-374
FinalValidation ==
    /\ node = "final_validation"
    /\ IF state.java_code = ""
       THEN state' = [state EXCEPT !.errors = Append(@, "no_java_code_final")]
       ELSE state' \in MayAppend(state, "critical")
    /\ node' = "finisher"
    /\ steps' = Append(steps, node)
    /\ UNCHANGED <<parseVars, batchVars, callVars, aggVars, attempt, responses, outcome>>
Finisher ==
    /\ node = "finisher"
    /\ state' = _finalize_state(state)
    /\ node' = "END"
    /\ steps' = Append(steps, node)
    /\ UNCHANGED <<parseVars, batchVars, callVars, aggVars, attempt, responses, outcome>>

FlowNext ==
    \/ DataRetrieval \/ PerlAnalysis \/ CodeGeneration \/ CodeAssurance
    \/ CodeFixer \/ FinalValidation \/ Finisher
\* every agent returns (its LLM calls and waits are bounded), and the graph
\* then runs the next node: a step that can be taken is taken
SpecFlow == FlowInit /\ [][FlowNext]_vars /\ WF_vars(FlowNext)

\* how many times the graph has run code_fixer
FixerRuns == Cardinality({k \in 1..Len(steps) : steps[k] = "code_fixer"})

\* C29: the assurance/fix loop is bounded.  fix_attempts grows by one in a
\* code_fixer step and in no other step; the graph goes to code_fixer only
\* from code_assurance, with errors non-empty and fix_attempts below
\* max_fix_attempts; code_fixer runs at most max_fix_attempts times; and every
\* run comes to final_validation, then finisher, and ends.
C29_FixLoopBounded ==
    /\ [][state'.fix_attempts = state.fix_attempts
                                + (IF node = "code_fixer" THEN 1 ELSE 0)]_vars
    /\ [][node' = "code_fixer" /\ node # "code_fixer" =>
              /\ node = "code_assurance"
              /\ state'.errors # <<>>
              /\ state'.fix_attempts < max_fix_attempts]_vars
    /\ [](FixerRuns <= max_fix_attempts /\ FixerRuns = state.fix_attempts)
    /\ <>(/\ node = "END"
          /\ Len(steps) >= 2
          /\ SubSeq(steps, Len(steps) - 1, Len(steps)) = <<"final_validation", "finisher">>)

\* a run that ended after code_fixer had run max_fix_attempts times
C29_Witness ==
    /\ node = "END"
    /\ FixerRuns = max_fix_attempts
    /\ state.java_code # ""

\* ------------------------------------------- EnhancedGroqLLM.generate_with_prompt
\* config.py line 124
retries == 5

\* A response text is a sequence of lines, each line one of: an opening fence
\* "<fence java>", a fence "<fence>", a comment line "//", a line with an explanation
\* phrase "here is", a line of code "code".  The fences stand for the lines
\* of three backquotes, with and without the word java.
\* config.py lines 63-93: the text within the fences, without its comment and
\* explanation lines
_post_process_response(response) ==
    LET Fences(ls) == {k \in 1..Len(ls) : ls[k] \in {"<fence java>", "<fence>"}}
        Upto(ls, S) == IF S = {} THEN ls
                       ELSE SubSeq(ls, 1, (CHOOSE k \in S : \A j \in S : k <= j) - 1)
        After(ls, k) == SubSeq(ls, k + 1, Len(ls))
        unfenced ==
            IF Find(response, "<fence java>") # 0
            THEN LET rest == After(response, Find(response, "<fence java>"))
                 IN  Upto(rest, Fences(rest))
            ELSE IF Cardinality(Fences(response)) >= 2
            THEN LET rest == After(response, Find(response, "<fence>"))
                 IN  Upto(rest, Fences(rest))
            ELSE response
    IN  IF response = <<>> THEN response
        ELSE SelectSeq(unfenced, LAMBDA line : line \notin {"//", "here is"})

\* ------------------------------------------- one LLM call (SpecLlm)
\* config.py lines 95-125: the call has waited for its turn and built the request
LlmInit ==
    /\ attempt = 0 /\ responses = <<>> /\ outcome = [kind |-> "running"]
    /\ state = AgentState /\ node = "idle" /\ steps = <<>>
    /\ ParseIdle /\ BatchIdle /\ CallIdle /\ AggIdle

\* lines 130-134: status 429, wait and continue; after the last iteration the
\* loop is left and the function's end is reached
RateLimited ==
    /\ outcome.kind = "running"
    /\ responses' = Append(responses, "429")
    /\ attempt' = attempt + 1
    /\ outcome' = IF attempt + 1 = retries
                  THEN [kind |-> "returned", value |-> None]
                  ELSE outcome
    /\ UNCHANGED <<parseVars, batchVars, callVars, aggVars, state, node, steps>>
\* lines 136-138: a successful response, with one of a few texts
Responds ==
    /\ outcome.kind = "running"
    /\ responses' = Append(responses, "ok")
    /\ \E raw \in { <<>>, <<"code">>, <<"<fence java>", "code", "<fence>">>,
                     <<"<fence>", "code", "<fence>">>,
                     <<"here is", "code", "//">>, <<"<fence>", "code">> } :
           outcome' = [kind |-> "returned", value |-> Some(_post_process_response(raw))]
    /\ UNCHANGED attempt
    /\ UNCHANGED <<parseVars, batchVars, callVars, aggVars, state, node, steps>>
\* lines 140-145: the request, raise_for_status or the reading of the body
\* raised
RequestFails ==
    /\ outcome.kind = "running"
    /\ responses' = Append(responses, "error")
    /\ IF attempt = retries - 1
       THEN /\ outcome' = [kind |-> "raised",
                           message |-> <<"Groq API failed after", retries, "attempts">>]
            /\ UNCHANGED attempt
       ELSE /\ attempt' = attempt + 1
            /\ UNCHANGED outcome
    /\ UNCHANGED <<parseVars, batchVars, callVars, aggVars, state, node, steps>>

SpecLlm == LlmInit /\ [][RateLimited \/ Responds \/ RequestFails]_vars

\* C30: generate_with_prompt makes at most 5 HTTP attempts and ends in one of
\* two ways: it returns the post-processed text of a successful response, or
\* it raises "Groq API failed after 5 attempts"; whatever the responses, five
\* 429 in a row included, it does not end without a text or an exception.
C30_TextOrException ==
    /\ Len(responses) <= 5
    /\ outcome.kind \in {"running", "returned", "raised"}
    /\ outcome.kind = "returned" =>
           /\ outcome.value # None
           /\ responses[Len(responses)] = "ok"
    /\ outcome.kind = "raised" =>
           /\ outcome.message = <<"Groq API failed after", 5, "attempts">>
           /\ Len(responses) = 5

\* ------------------------------------ one relationship list aggregated (SpecAgg)
CallProps(call_type, call_pattern) ==
    [call_type |-> call_type, call_pattern |-> call_pattern]
RawRels ==
    {[from_id |-> f, to_id |-> "method_m", type |-> "CALLS_METHOD", properties |-> pr] :
        f \in {"method_a", "script_b"},
        pr \in {CallProps("direct_function", <<"m", "(">>),
                CallProps("object_method", <<"x", "->", "m", "(">>)}}
    \cup {[from_id |-> f, to_id |-> "method_m", type |-> "HAS_METHOD",
           properties |-> <<>>] : f \in {"method_a", "script_b"}}

AggInit ==
    /\ relationships \in SeqsUpTo(RawRels, MaxRels)
    /\ agg_pos = 0 /\ aggregated = <<>> /\ agg_result = <<>> /\ apc = "fold"
    /\ ParseIdle /\ BatchIdle /\ CallIdle /\ AgentIdle

\* the loop of line 334
AggregateFold ==
    /\ apc = "fold"
    /\ agg_pos < Len(relationships)
    /\ aggregated' = AggregatePut(aggregated, relationships[agg_pos + 1])
    /\ agg_pos' = agg_pos + 1
    /\ UNCHANGED <<relationships, agg_result, apc>>
    /\ UNCHANGED <<parseVars, batchVars, callVars, agentVars>>

\* the loop of line 348
AggregateEmit ==
    /\ apc = "fold"
    /\ agg_pos = Len(relationships)
    /\ Len(agg_result) < Len(aggregated)
    /\ LET item == aggregated[Len(agg_result) + 1]
       IN  \E call_type \in (IF item.call_types = {} THEN {"<absent>"}
                             ELSE item.call_types) :
               agg_result' = Append(agg_result, AggregatedRel(item, call_type))
    /\ UNCHANGED <<relationships, agg_pos, aggregated, apc>>
    /\ UNCHANGED <<parseVars, batchVars, callVars, agentVars>>

\* line 366
AggregateReturn ==
    /\ apc = "fold"
    /\ agg_pos = Len(relationships)
    /\ Len(agg_result) = Len(aggregated)
    /\ apc' = "done"
    /\ UNCHANGED <<relationships, agg_pos, aggregated, agg_result>>
    /\ UNCHANGED <<parseVars, batchVars, callVars, agentVars>>

AggNext == AggregateFold \/ AggregateEmit \/ AggregateReturn
SpecAgg == AggInit /\ [][AggNext]_vars

Occurrences(key) == Cardinality({k \in 1..Len(relationships) : RelKey(relationships[k]) = key})

=============================================================================
